---- MODULE Spec2Model ----
(***************************************************************************)
(* Model of train.py (ISIC2018 attribute-segmentation training driver).    *)
(*                                                                         *)
(* The state is that of main(): the loop variables (epoch, step, the two   *)
(* best-so-far trackers), the model (weights, gradient buffers, which      *)
(* parameter groups are trainable), the metric accumulator, the single     *)
(* checkpoint file, the visualization writer and the position of the       *)
(* control thread (pc).  One action per statement group of main(); a       *)
(* KeyboardInterrupt may be delivered between any two of them.             *)
(*                                                                         *)
(* Metric values are fixed-point numbers in hundredths (0.5 is 50, the     *)
(* sentinel 10 is 1000).                                                   *)
(***************************************************************************)
EXTENDS Integers, Sequences, FiniteSets, TLC

VARIABLES
    pc,                     \* position of the control thread in main()
    split_file,             \* the pickled split table read by get_split
    train_test_id,          \* the table get_split returned
    resume_path,            \* args.resume_path is not None
    n_epochs,               \* args.n_epochs
    valid_range,            \* the values the validation procedure can return
    file,                   \* content of checkpoint/model.pt
    epoch,                  \* loop variable of line 244
    it,                     \* next value of range(epoch, n_epochs + 1)
    step,                   \* global step counter
    previous_valid_loss,    \* best validation loss so far
    previous_valid_jaccard, \* best validation jaccard so far
    weights,                \* model parameters: version number
    grads,                  \* gradient buffers: "none", "zero" or "fresh"
    trainable,              \* parameter groups with requires_grad = True
    i,                      \* number of batches fetched in this epoch
    meter,                  \* batches added to the accumulator since reset
    train_metrics,          \* result of meter.value()
    valid_metrics,          \* result of valid_fn(...)
    valid_loss,             \* local of lines 255, 369
    valid_jaccard,          \* local of line 370
    writer_open,            \* the SummaryWriter has not been closed
    scheduler,              \* calls of scheduler.step: count and last metric
    \* history variables (not program state)
    interrupts,             \* KeyboardInterrupts caught by line 383
    optSteps,               \* optimizer.step() calls since run start
    totalAdds,              \* meter.add() calls since run start
    events,                 \* what the current epoch has done, in order
    ended,                  \* how the last epoch ended: none/completed/aborted
    sel,                    \* trackers and file on entry to this epoch's selection
    writes                  \* records written to the file in this epoch

vars == <<pc, split_file, train_test_id, resume_path, n_epochs, valid_range,
          file, epoch, it, step, previous_valid_loss, previous_valid_jaccard,
          weights, grads, trainable, i, meter, train_metrics, valid_metrics,
          valid_loss, valid_jaccard, writer_open, scheduler, interrupts,
          optSteps, totalAdds, events, ended, sel, writes>>

(***************************************************************************)
(* Bounds of the model.                                                    *)
(***************************************************************************)
MaxEpochs == 3       \* args.n_epochs of the main specification
NBatches == 2        \* batches the training loader yields per epoch
MaxInterrupts == 1   \* KeyboardInterrupts delivered in one run
MaxRows == 2         \* rows of the split table
NumIds == 3          \* distinct sample ids

(***************************************************************************)
(* Program constants.                                                      *)
(***************************************************************************)
UnfreezeEpoch == 50  \* line 281

Fixed(x) == x * 100

SentinelLoss == Fixed(10)   \* line 215 and line 227
InitialJaccard == Fixed(0)  \* line 243

\* Values the validation procedure returns in the model.
LossValues == {40, 50, 60}
JaccardValues == {20, 30, 50}

(***************************************************************************)
(* get_split (lines 31-43).  A table is a sequence of rows; a row of the   *)
(* pickled table has an id, a Split label and the five attribute counts.   *)
(***************************************************************************)
AttrChoices == {<<0, 0, 0, 0, 0>>, <<1, 0, 1, 0, 0>>}

InRows == [id : 1..NumIds, Split : {"train", "valid"}, attrs : AttrChoices]

\* Tables whose rows have pairwise distinct ids (one row per image).
SplitTables ==
    UNION {{t \in [1..n -> InRows] :
              \A a, b \in 1..n : a # b => t[a].id # t[b].id} : n \in 0..MaxRows}

\* lines 35-39: the 'total' column, the row sum of the five attributes
WithTotal(r) ==
    [id |-> r.id, Split |-> r.Split, attrs |-> r.attrs,
     total |-> r.attrs[1] + r.attrs[2] + r.attrs[3] + r.attrs[4] + r.attrs[5]]

RECURSIVE NonTrain(_)
\* line 40: train_test_id[train_test_id.Split != 'train'], row order kept
NonTrain(t) ==
    IF t = <<>> THEN <<>>
    ELSE IF Head(t).Split # "train" THEN <<Head(t)>> \o NonTrain(Tail(t))
         ELSE NonTrain(Tail(t))

\* line 41: valid['Split'] = 'train'
Relabel(t) == [k \in 1..Len(t) |-> [t[k] EXCEPT !.Split = "train"]]

\* A slip of line 41: the copied rows keep their label.
get_split_NoRelabel(t) ==
    LET tot == [k \in 1..Len(t) |-> WithTotal(t[k])]
    IN  tot \o NonTrain(tot)

get_split(t) ==
    LET tot == [k \in 1..Len(t) |-> WithTotal(t[k])]
        valid == Relabel(NonTrain(tot))
    IN  tot \o valid

\* The table of the main specification: one training and one held-out image.
ExampleSplit ==
    <<[id |-> 1, Split |-> "train", attrs |-> <<1, 0, 1, 0, 0>>],
      [id |-> 2, Split |-> "valid", attrs |-> <<0, 0, 0, 0, 0>>]>>

(***************************************************************************)
(* Collaborators that are not part of train.py.                            *)
(***************************************************************************)
NoMetrics == [loss1 |-> 0, jaccard |-> 0]
NoTrainMetrics == [batches |-> {}]

AllFields == {"epoch", "step", "model", "valid_loss", "train_metrics",
              "valid_metrics"}

NoFile == [exists |-> FALSE, fields |-> {}, epoch |-> 0, step |-> 0,
           model |-> 0, valid_loss |-> 0, train_metrics |-> NoTrainMetrics,
           valid_metrics |-> NoMetrics]

\* utils.save_weights: the Checkpoint Record written to the one file
save_weights(model, ep, st, tm, vm) ==
    [exists |-> TRUE, fields |-> AllFields, epoch |-> ep, step |-> st,
     model |-> model, valid_loss |-> vm.loss1, train_metrics |-> tm,
     valid_metrics |-> vm]

\* utils.get_freeze_layer_names(model, part='encoder')
get_freeze_layer_names == {"encoder"}

ParamGroups == {"encoder", "decoder"}

\* utils.set_freeze_layers: the named groups frozen, every other trainable;
\* names is {} for freeze_layer_names=None
set_freeze_layers(names) == ParamGroups \ names

\* metrics.AllInOneMeter
MeterReset == {}
MeterAdd(m, e, b) == m \cup {<<e, b>>}
MeterValue(m) == [batches |-> m]

(***************************************************************************)
(* Checkpoint files a run can find at startup: none, a full record of an   *)
(* earlier run, and records lacking one field.                             *)
(***************************************************************************)
OldRecord ==
    save_weights(4, 3, 4, [batches |-> {<<2, 1>>, <<2, 2>>}],
                 [loss1 |-> 50, jaccard |-> 30])

Lacking(f) == [OldRecord EXCEPT !.fields = AllFields \ {f}]

StartFiles == {NoFile, OldRecord, Lacking("valid_loss"), Lacking("epoch"),
               Lacking("step"), Lacking("model")}

\* resume_path given or not, with the file found in the checkpoint folder
Startups ==
    {<<FALSE, NoFile>>, <<FALSE, OldRecord>>} \cup {<<TRUE, f>> : f \in StartFiles}

NoSelection == [loss0 |-> 0, jac0 |-> 0, file0 |-> NoFile]

(***************************************************************************)
(* Initial states.                                                         *)
(***************************************************************************)
InitWith(starts) ==
    /\ pc = "get_split"
    /\ train_test_id = <<>>
    /\ \E s \in starts : resume_path = s[1] /\ file = s[2]
    /\ epoch = 0 /\ it = 0 /\ step = 0
    /\ previous_valid_loss = SentinelLoss
    /\ previous_valid_jaccard = InitialJaccard
    /\ weights = 0
    /\ grads = "none"
    /\ trainable = ParamGroups
    /\ i = 0
    /\ meter = MeterReset
    /\ train_metrics = NoTrainMetrics
    /\ valid_metrics = NoMetrics
    /\ valid_loss = 0 /\ valid_jaccard = 0
    /\ writer_open = FALSE
    /\ scheduler = [n |-> 0, last |-> 0]
    /\ interrupts = 0 /\ optSteps = 0 /\ totalAdds = 0
    /\ events = <<>>
    /\ ended = "none"
    /\ sel = NoSelection
    /\ writes = <<>>

Init ==
    /\ InitWith(Startups)
    /\ split_file = ExampleSplit
    /\ n_epochs = MaxEpochs
    /\ valid_range = [loss |-> LossValues, jaccard |-> JaccardValues]

InitSplit ==
    /\ InitWith({<<FALSE, NoFile>>})
    /\ split_file \in SplitTables
    /\ n_epochs = MaxEpochs
    /\ valid_range = [loss |-> LossValues, jaccard |-> JaccardValues]

InitLong ==
    /\ InitWith({<<FALSE, NoFile>>})
    /\ split_file = ExampleSplit
    /\ n_epochs = UnfreezeEpoch + 1
    /\ valid_range = [loss |-> {50}, jaccard |-> {30}]

(***************************************************************************)
(* Startup of main().                                                      *)
(***************************************************************************)

\* line 148
GetSplit ==
    /\ pc = "get_split"
    /\ train_test_id' = get_split(split_file)
    /\ pc' = "load"
    /\ UNCHANGED <<split_file, resume_path, n_epochs, valid_range, file,
                   epoch, it, step, previous_valid_loss,
                   previous_valid_jaccard, weights, grads, trainable, i,
                   meter, train_metrics, valid_metrics, valid_loss,
                   valid_jaccard, writer_open, scheduler, interrupts,
                   optSteps, totalAdds, events, ended, sel, writes>>

\* A slip of lines 224-227: state['valid_loss'] read without the try.
LoadFailsUnguarded(state) ==
    ~({"epoch", "step", "model", "valid_loss"} \subseteq state.fields)

\* lines 219-221: state['epoch'], state['step'] and state['model'] are read
\* unguarded; a missing key raises KeyError, which nothing catches
LoadFails(state) == ~({"epoch", "step", "model"} \subseteq state.fields)

\* lines 224-227: try state['valid_loss'], except: 10
StoredValidLoss(state) ==
    IF "valid_loss" \in state.fields THEN state.valid_loss ELSE SentinelLoss

\* line 219 assigns state['epoch'], line 222 overwrites it with 1
RestoredEpoch(state) == 1

\* line 220 assigns state['step'], line 223 overwrites it with 0
RestoredStep(state) == 0

\* line 217
Resuming == resume_path /\ file.exists

\* lines 215-243: load previous model status, open the log and the writer
LoadPreviousStatus ==
    /\ pc = "load"
    /\ IF Resuming /\ LoadFails(file)
       THEN /\ pc' = "failed"
            /\ UNCHANGED <<epoch, it, step, weights, previous_valid_loss,
                           previous_valid_jaccard, writer_open, meter>>
       ELSE /\ IF Resuming
               THEN /\ epoch' = RestoredEpoch(file)
                    /\ step' = RestoredStep(file)
                    /\ weights' = file.model
                    /\ previous_valid_loss' = StoredValidLoss(file)
               ELSE /\ epoch' = 1
                    /\ step' = 0
                    /\ weights' = weights
                    /\ previous_valid_loss' = SentinelLoss
            /\ it' = epoch'
            /\ previous_valid_jaccard' = InitialJaccard
            /\ writer_open' = TRUE
            /\ meter' = MeterReset
            /\ pc' = "for"
    /\ UNCHANGED <<split_file, train_test_id, resume_path, n_epochs,
                   valid_range, file, grads, trainable, i, train_metrics,
                   valid_metrics, valid_loss, valid_jaccard, scheduler,
                   interrupts, optSteps, totalAdds, events, ended, sel,
                   writes>>

(***************************************************************************)
(* The epoch loop, lines 244-391.                                          *)
(***************************************************************************)

\* A slip of line 249: the accumulator is not reset.
ForNextNoReset ==
    /\ pc = "for"
    /\ IF it <= n_epochs
       THEN /\ epoch' = it
            /\ it' = it + 1
            /\ meter' = meter
            /\ train_metrics' = NoTrainMetrics
            /\ valid_metrics' = NoMetrics
            /\ valid_jaccard' = 0
            /\ events' = <<>>
            /\ writes' = <<>>
            /\ sel' = NoSelection
            /\ ended' = "none"
            /\ pc' = "try"
       ELSE /\ pc' = "close"
            /\ UNCHANGED <<epoch, it, meter, train_metrics, valid_metrics,
                           valid_jaccard, events, writes, sel, ended>>
    /\ UNCHANGED <<split_file, train_test_id, resume_path, n_epochs,
                   valid_range, file, step, previous_valid_loss,
                   previous_valid_jaccard, weights, grads, trainable, i,
                   valid_loss, writer_open, scheduler, interrupts, optSteps,
                   totalAdds>>

\* lines 244-252: next value of the range, model.train(), meter.reset();
\* line 391 is reached when the range is exhausted.  The locals that every
\* epoch assigns before it reads them (train_metrics at line 350,
\* valid_metrics at line 358, valid_jaccard at line 370) are dead here and
\* the model drops their values.
ForNext ==
    /\ pc = "for"
    /\ IF it <= n_epochs
       THEN /\ epoch' = it
            /\ it' = it + 1
            /\ meter' = MeterReset
            /\ train_metrics' = NoTrainMetrics
            /\ valid_metrics' = NoMetrics
            /\ valid_jaccard' = 0
            /\ events' = <<>>
            /\ writes' = <<>>
            /\ sel' = NoSelection
            /\ ended' = "none"
            /\ pc' = "try"
       ELSE /\ pc' = "close"
            /\ UNCHANGED <<epoch, it, meter, train_metrics, valid_metrics,
                           valid_jaccard, events, writes, sel, ended>>
    /\ UNCHANGED <<split_file, train_test_id, resume_path, n_epochs,
                   valid_range, file, step, previous_valid_loss,
                   previous_valid_jaccard, weights, grads, trainable, i,
                   valid_loss, writer_open, scheduler, interrupts, optSteps,
                   totalAdds>>

\* lines 256-283: the freeze rule of the epoch
FreezeRuleFor(e, current) ==
    IF e = 1 THEN set_freeze_layers(get_freeze_layer_names)
    ELSE IF e = UnfreezeEpoch THEN set_freeze_layers({})
    ELSE current

\* lines 254-283
FreezeRule ==
    /\ pc = "try"
    /\ valid_loss' = 0
    /\ trainable' = FreezeRuleFor(epoch, trainable)
    /\ i' = 0
    /\ pc' = "batch"
    /\ UNCHANGED <<split_file, train_test_id, resume_path, n_epochs,
                   valid_range, file, epoch, it, step, previous_valid_loss,
                   previous_valid_jaccard, weights, grads, meter,
                   train_metrics, valid_metrics, valid_jaccard, writer_open,
                   scheduler, interrupts, optSteps, totalAdds, events, ended,
                   sel, writes>>

\* lines 284-330: fetch the next batch, forward pass, the three losses
FetchBatch ==
    /\ pc = "batch"
    /\ i < NBatches
    /\ i' = i + 1
    /\ pc' = "zero_grad"
    /\ UNCHANGED <<split_file, train_test_id, resume_path, n_epochs,
                   valid_range, file, epoch, it, step, previous_valid_loss,
                   previous_valid_jaccard, weights, grads, trainable, meter,
                   train_metrics, valid_metrics, valid_loss, valid_jaccard,
                   writer_open, scheduler, interrupts, optSteps, totalAdds,
                   events, ended, sel, writes>>

\* line 331
ZeroGrad ==
    /\ pc = "zero_grad"
    /\ grads' = "zero"
    /\ pc' = "backward"
    /\ UNCHANGED <<split_file, train_test_id, resume_path, n_epochs,
                   valid_range, file, epoch, it, step, previous_valid_loss,
                   previous_valid_jaccard, weights, trainable, i, meter,
                   train_metrics, valid_metrics, valid_loss, valid_jaccard,
                   writer_open, scheduler, interrupts, optSteps, totalAdds,
                   events, ended, sel, writes>>

\* line 332
Backward ==
    /\ pc = "backward"
    /\ grads' = "fresh"
    /\ pc' = "opt_step"
    /\ UNCHANGED <<split_file, train_test_id, resume_path, n_epochs,
                   valid_range, file, epoch, it, step, previous_valid_loss,
                   previous_valid_jaccard, weights, trainable, i, meter,
                   train_metrics, valid_metrics, valid_loss, valid_jaccard,
                   writer_open, scheduler, interrupts, optSteps, totalAdds,
                   events, ended, sel, writes>>

\* line 333
OptimizerStep ==
    /\ pc = "opt_step"
    /\ weights' = weights + 1
    /\ optSteps' = optSteps + 1
    /\ pc' = "inc_step"
    /\ UNCHANGED <<split_file, train_test_id, resume_path, n_epochs,
                   valid_range, file, epoch, it, step, previous_valid_loss,
                   previous_valid_jaccard, grads, trainable, i, meter,
                   train_metrics, valid_metrics, valid_loss, valid_jaccard,
                   writer_open, scheduler, interrupts, totalAdds, events,
                   ended, sel, writes>>

\* A slip of line 334: the counter is left alone.
IncStepForgotten ==
    /\ pc = "inc_step"
    /\ step' = step
    /\ pc' = "meter_add"
    /\ UNCHANGED <<split_file, train_test_id, resume_path, n_epochs,
                   valid_range, file, epoch, it, previous_valid_loss,
                   previous_valid_jaccard, weights, grads, trainable, i,
                   meter, train_metrics, valid_metrics, valid_loss,
                   valid_jaccard, writer_open, scheduler, interrupts,
                   optSteps, totalAdds, events, ended, sel, writes>>

\* line 334
IncStep ==
    /\ pc = "inc_step"
    /\ step' = step + 1
    /\ pc' = "meter_add"
    /\ UNCHANGED <<split_file, train_test_id, resume_path, n_epochs,
                   valid_range, file, epoch, it, previous_valid_loss,
                   previous_valid_jaccard, weights, grads, trainable, i,
                   meter, train_metrics, valid_metrics, valid_loss,
                   valid_jaccard, writer_open, scheduler, interrupts,
                   optSteps, totalAdds, events, ended, sel, writes>>

\* lines 336-337
MeterAddBatch ==
    /\ pc = "meter_add"
    /\ meter' = MeterAdd(meter, epoch, i)
    /\ totalAdds' = totalAdds + 1
    /\ events' = Append(events, "batch")
    /\ pc' = "batch"
    /\ UNCHANGED <<split_file, train_test_id, resume_path, n_epochs,
                   valid_range, file, epoch, it, step, previous_valid_loss,
                   previous_valid_jaccard, weights, grads, trainable, i,
                   train_metrics, valid_metrics, valid_loss, valid_jaccard,
                   writer_open, scheduler, interrupts, optSteps, ended, sel,
                   writes>>

\* lines 349-354: the loader is exhausted; finalize the training metrics
FinalizeTrainMetrics ==
    /\ pc = "batch"
    /\ i = NBatches
    /\ train_metrics' = MeterValue(meter)
    /\ events' = Append(events, "value")
    /\ pc' = "validation"
    /\ UNCHANGED <<split_file, train_test_id, resume_path, n_epochs,
                   valid_range, file, epoch, it, step, previous_valid_loss,
                   previous_valid_jaccard, weights, grads, trainable, i,
                   meter, valid_metrics, valid_loss, valid_jaccard,
                   writer_open, scheduler, interrupts, optSteps, totalAdds,
                   ended, sel, writes>>

\* lines 358-359
Validation ==
    /\ pc = "validation"
    /\ \E vl \in valid_range.loss, vj \in valid_range.jaccard :
          valid_metrics' = [loss1 |-> vl, jaccard |-> vj]
    /\ events' = Append(events, "valid")
    /\ pc' = "write"
    /\ UNCHANGED <<split_file, train_test_id, resume_path, n_epochs,
                   valid_range, file, epoch, it, step, previous_valid_loss,
                   previous_valid_jaccard, weights, grads, trainable, i,
                   meter, train_metrics, valid_loss, valid_jaccard,
                   writer_open, scheduler, interrupts, optSteps, totalAdds,
                   ended, sel, writes>>

\* lines 362-366: write_event and write_tensorboard
WriteEvents ==
    /\ pc = "write"
    /\ events' = Append(events, "log")
    /\ pc' = "select"
    /\ UNCHANGED <<split_file, train_test_id, resume_path, n_epochs,
                   valid_range, file, epoch, it, step, previous_valid_loss,
                   previous_valid_jaccard, weights, grads, trainable, i,
                   meter, train_metrics, valid_metrics, valid_loss,
                   valid_jaccard, writer_open, scheduler, interrupts,
                   optSteps, totalAdds, ended, sel, writes>>

\* lines 369-370
ReadValidMetrics ==
    /\ pc = "select"
    /\ valid_loss' = valid_metrics.loss1
    /\ valid_jaccard' = valid_metrics.jaccard
    /\ sel' = [loss0 |-> previous_valid_loss, jac0 |-> previous_valid_jaccard,
               file0 |-> file]
    /\ events' = Append(events, "select")
    /\ pc' = "loss_test"
    /\ UNCHANGED <<split_file, train_test_id, resume_path, n_epochs,
                   valid_range, file, epoch, it, step, previous_valid_loss,
                   previous_valid_jaccard, weights, grads, trainable, i,
                   meter, train_metrics, valid_metrics, writer_open,
                   scheduler, interrupts, optSteps, totalAdds, ended, writes>>

\* A slip of line 371: not strict.
LossImprovedOrEqual(vl, best) == vl <= best

\* line 371
LossImproved(vl, best) == vl < best

\* line 375
JaccardImproved(vj, best) == vj > best

\* A slip of lines 372 and 376: the epoch saved is the one that just ran.
CheckpointRecordThisEpoch ==
    save_weights(weights, epoch, step, train_metrics, valid_metrics)

\* lines 372 and 376: the same call
CheckpointRecord ==
    save_weights(weights, epoch + 1, step, train_metrics, valid_metrics)

\* lines 371-372
SaveByLoss ==
    /\ pc = "loss_test"
    /\ IF LossImproved(valid_loss, previous_valid_loss)
       THEN /\ file' = CheckpointRecord
            /\ writes' = Append(writes, [by |-> "loss", rec |-> file'])
            /\ pc' = "loss_update"
       ELSE /\ pc' = "jac_test"
            /\ UNCHANGED <<file, writes>>
    /\ UNCHANGED <<split_file, train_test_id, resume_path, n_epochs,
                   valid_range, epoch, it, step, previous_valid_loss,
                   previous_valid_jaccard, weights, grads, trainable, i,
                   meter, train_metrics, valid_metrics, valid_loss,
                   valid_jaccard, writer_open, scheduler, interrupts,
                   optSteps, totalAdds, events, ended, sel>>

\* lines 373-374
UpdateBestLoss ==
    /\ pc = "loss_update"
    /\ previous_valid_loss' = valid_loss
    /\ pc' = "jac_test"
    /\ UNCHANGED <<split_file, train_test_id, resume_path, n_epochs,
                   valid_range, file, epoch, it, step, previous_valid_jaccard,
                   weights, grads, trainable, i, meter, train_metrics,
                   valid_metrics, valid_loss, valid_jaccard, writer_open,
                   scheduler, interrupts, optSteps, totalAdds, events, ended,
                   sel, writes>>

\* lines 375-376
SaveByJaccard ==
    /\ pc = "jac_test"
    /\ IF JaccardImproved(valid_jaccard, previous_valid_jaccard)
       THEN /\ file' = CheckpointRecord
            /\ writes' = Append(writes, [by |-> "jaccard", rec |-> file'])
            /\ pc' = "jac_update"
       ELSE /\ pc' = "sched"
            /\ UNCHANGED <<file, writes>>
    /\ UNCHANGED <<split_file, train_test_id, resume_path, n_epochs,
                   valid_range, epoch, it, step, previous_valid_loss,
                   previous_valid_jaccard, weights, grads, trainable, i,
                   meter, train_metrics, valid_metrics, valid_loss,
                   valid_jaccard, writer_open, scheduler, interrupts,
                   optSteps, totalAdds, events, ended, sel>>

\* lines 377-378
UpdateBestJaccard ==
    /\ pc = "jac_update"
    /\ previous_valid_jaccard' = valid_jaccard
    /\ pc' = "sched"
    /\ UNCHANGED <<split_file, train_test_id, resume_path, n_epochs,
                   valid_range, file, epoch, it, step, previous_valid_loss,
                   weights, grads, trainable, i, meter, train_metrics,
                   valid_metrics, valid_loss, valid_jaccard, writer_open,
                   scheduler, interrupts, optSteps, totalAdds, events, ended,
                   sel, writes>>

\* A slip of line 381: the scheduler is fed the jaccard instead of loss1.
SchedulerStepOnJaccard ==
    /\ pc = "sched"
    /\ scheduler' = [n |-> scheduler.n + 1, last |-> valid_metrics.jaccard]
    /\ events' = Append(events, "sched")
    /\ ended' = "completed"
    /\ pc' = "for"
    /\ UNCHANGED <<split_file, train_test_id, resume_path, n_epochs,
                   valid_range, file, epoch, it, step, previous_valid_loss,
                   previous_valid_jaccard, weights, grads, trainable, i,
                   meter, train_metrics, valid_metrics, valid_loss,
                   valid_jaccard, writer_open, interrupts, optSteps,
                   totalAdds, sel, writes>>

\* line 381: the end of the try body; the loop goes on to the next epoch
SchedulerStep ==
    /\ pc = "sched"
    /\ scheduler' = [n |-> scheduler.n + 1, last |-> valid_metrics.loss1]
    /\ events' = Append(events, "sched")
    /\ ended' = "completed"
    /\ pc' = "for"
    /\ UNCHANGED <<split_file, train_test_id, resume_path, n_epochs,
                   valid_range, file, epoch, it, step, previous_valid_loss,
                   previous_valid_jaccard, weights, grads, trainable, i,
                   meter, train_metrics, valid_metrics, valid_loss,
                   valid_jaccard, writer_open, interrupts, optSteps,
                   totalAdds, sel, writes>>

\* Positions inside the try statement of lines 253-381.
TryBody == {"try", "batch", "zero_grad", "backward", "opt_step", "inc_step",
            "meter_add", "validation", "write", "select", "loss_test",
            "loss_update", "jac_test", "jac_update", "sched"}

\* Positions of main() outside the try statement.
OutsideTry == {"get_split", "load", "for", "close"}

\* line 390 is a comment: after the handler the for statement goes on
AfterHandler == "for"

\* lines 383-390: Ctrl+C inside the try body
KeyboardInterrupt ==
    /\ pc \in TryBody
    /\ interrupts < MaxInterrupts
    /\ writer_open' = FALSE
    /\ interrupts' = interrupts + 1
    /\ ended' = "aborted"
    /\ pc' = AfterHandler
    /\ UNCHANGED <<split_file, train_test_id, resume_path, n_epochs,
                   valid_range, file, epoch, it, step, previous_valid_loss,
                   previous_valid_jaccard, weights, grads, trainable, i,
                   meter, train_metrics, valid_metrics, valid_loss,
                   valid_jaccard, scheduler, optSteps, totalAdds, events, sel,
                   writes>>

\* Ctrl+C outside the try statement: nothing catches it
UncaughtInterrupt ==
    /\ pc \in OutsideTry
    /\ pc' = "killed"
    /\ UNCHANGED <<split_file, train_test_id, resume_path, n_epochs,
                   valid_range, file, epoch, it, step, previous_valid_loss,
                   previous_valid_jaccard, weights, grads, trainable, i,
                   meter, train_metrics, valid_metrics, valid_loss,
                   valid_jaccard, writer_open, scheduler, interrupts,
                   optSteps, totalAdds, events, ended, sel, writes>>

\* line 391
FinalClose ==
    /\ pc = "close"
    /\ writer_open' = FALSE
    /\ pc' = "done"
    /\ UNCHANGED <<split_file, train_test_id, resume_path, n_epochs,
                   valid_range, file, epoch, it, step, previous_valid_loss,
                   previous_valid_jaccard, weights, grads, trainable, i,
                   meter, train_metrics, valid_metrics, valid_loss,
                   valid_jaccard, scheduler, interrupts, optSteps, totalAdds,
                   events, ended, sel, writes>>

Next ==
    \/ GetSplit
    \/ LoadPreviousStatus
    \/ ForNext
    \/ FreezeRule
    \/ FetchBatch
    \/ ZeroGrad
    \/ Backward
    \/ OptimizerStep
    \/ IncStep
    \/ MeterAddBatch
    \/ FinalizeTrainMetrics
    \/ Validation
    \/ WriteEvents
    \/ ReadValidMetrics
    \/ SaveByLoss
    \/ UpdateBestLoss
    \/ SaveByJaccard
    \/ UpdateBestJaccard
    \/ SchedulerStep
    \/ KeyboardInterrupt
    \/ UncaughtInterrupt
    \/ FinalClose

Spec == Init /\ [][Next]_vars

\* get_split alone, over every split table within the bounds
NextSplit == GetSplit

SpecSplit == InitSplit /\ [][NextSplit]_vars

\* A run long enough to reach the unfreeze rule of line 281
SpecLong == InitLong /\ [][Next]_vars

(***************************************************************************)
(* Properties.                                                             *)
(***************************************************************************)
\* The epoch that just ran went through to the scheduler step.
EpochCompleted == pc = "for" /\ ended = "completed"

\* Selection of the current epoch is over (lines 369-378 have run).
SelectionDone == pc = "sched" \/ EpochCompleted

\* The branches that wrote the checkpoint in this epoch, in order.
Branches == [k \in 1..Len(writes) |-> writes[k].by]

\* C1: at the end of every epoch's selection the loss branch has written
\* the checkpoint iff valid_loss < best_loss (strict), and best_loss is then
\* valid_loss; the jaccard branch has written it iff valid_jaccard >
\* best_jaccard (strict), and best_jaccard is then valid_jaccard; the
\* branches are independent; best_loss has not increased and best_jaccard
\* has not decreased; a run that does not resume starts from 10 and 0; and
\* the steps of [(0.5,0.3),(0.4,0.2),(0.6,0.5)] fire both branches, the loss
\* branch alone and the jaccard branch alone.
C1_CheckpointSelection ==
    SelectionDone =>
        LET vl == valid_metrics.loss1
            vj == valid_metrics.jaccard
            byLoss == \E k \in 1..Len(writes) : writes[k].by = "loss"
            byJac == \E k \in 1..Len(writes) : writes[k].by = "jaccard"
        IN  /\ byLoss <=> vl < sel.loss0
            /\ byJac <=> vj > sel.jac0
            /\ previous_valid_loss = (IF vl < sel.loss0 THEN vl ELSE sel.loss0)
            /\ previous_valid_jaccard = (IF vj > sel.jac0 THEN vj ELSE sel.jac0)
            /\ previous_valid_loss <= sel.loss0
            /\ previous_valid_jaccard >= sel.jac0
            /\ (epoch = 1 /\ ~resume_path) =>
                   sel.loss0 = Fixed(10) /\ sel.jac0 = 0
            /\ (sel.loss0 = Fixed(10) /\ sel.jac0 = 0 /\ vl = 50 /\ vj = 30) =>
                   Branches = <<"loss", "jaccard">>
            /\ (sel.loss0 = 50 /\ sel.jac0 = 30 /\ vl = 40 /\ vj = 20) =>
                   Branches = <<"loss">>
            /\ (sel.loss0 = 40 /\ sel.jac0 = 30 /\ vl = 60 /\ vj = 50) =>
                   Branches = <<"jaccard">>

\* C1 witness: the third step of the example, in the third epoch of a run
\* that started from the defaults: only the jaccard branch wrote.
C1_Witness ==
    /\ EpochCompleted /\ epoch = 3 /\ ~resume_path /\ interrupts = 0
    /\ sel.loss0 = 40 /\ sel.jac0 = 30
    /\ valid_metrics = [loss1 |-> 60, jaccard |-> 50]
    /\ Branches = <<"jaccard">>
    /\ previous_valid_loss = 40 /\ previous_valid_jaccard = 50

\* C2: once an interrupt has been caught in the body of an epoch, the
\* writer is closed and no epoch body runs any more: no later epoch is
\* started, so no batch, optimizer step or checkpoint write follows.
C2_GracefulStop ==
    interrupts > 0 => (~writer_open /\ pc \notin TryBody)

\* Before the first epoch: the range of line 244 has been set up and not
\* yet asked for a value.
BeforeFirstEpoch == pc = "for" /\ ended = "none"

\* C3: with a resume checkpoint present the first epoch executed is the
\* one stored in the checkpoint and the step counter starts at the stored
\* step; only without one does the run start from epoch 1 and step 0.
C3_ResumeRestoresCounters ==
    BeforeFirstEpoch =>
        IF resume_path /\ file.exists
        THEN it = file.epoch /\ step = file.step
        ELSE it = 1 /\ step = 0

\* Positions at which a training batch of the epoch is being processed.
InBatch == {"zero_grad", "backward", "opt_step", "inc_step", "meter_add"}

\* C4: while the batches of epoch e are processed the encoder is frozen
\* and the rest trainable when 1 <= e < 50, and everything is trainable
\* when e >= 50.
C4_FreezeSchedule ==
    pc \in InBatch =>
        trainable = (IF epoch < UnfreezeEpoch THEN {"decoder"} ELSE ParamGroups)

\* Rows of a table as a set of positions.
Rows(t) == 1..Len(t)

\* C5: in the table get_split returns no sample labelled non-train also
\* appears labelled 'train'.
C5_HeldOut ==
    pc = "load" =>
        \A a, b \in Rows(train_test_id) :
            (train_test_id[a].Split # "train" /\ train_test_id[b].Split = "train")
                => train_test_id[a].id # train_test_id[b].id

\* C5 as amended: get_split keeps every row of the pickled table in place
\* and appends one copy, labelled 'train', of every non-train row; every
\* validation sample is therefore also a training sample (once), and the
\* training samples are all the samples of the table.
C5_ValidationInTraining ==
    pc = "load" =>
        LET out == train_test_id
            n == Len(split_file)
            held == {k \in 1..n : split_file[k].Split # "train"}
        IN  /\ Len(out) = n + Cardinality(held)
            /\ \A k \in 1..n : /\ out[k].id = split_file[k].id
                               /\ out[k].Split = split_file[k].Split
            /\ \A k \in Rows(out) :
                   out[k].Split # "train" =>
                       Cardinality({j \in Rows(out) :
                                       /\ out[j].id = out[k].id
                                       /\ out[j].Split = "train"
                                       /\ out[j].attrs = out[k].attrs
                                       /\ out[j].total = out[k].total}) = 1
            /\ {out[k].id : k \in {j \in Rows(out) : out[j].Split = "train"}}
                   = {split_file[k].id : k \in 1..n}

\* C5 witness: a table with a held-out row has gone through get_split.
C5_Witness ==
    /\ pc = "load"
    /\ \E k \in Rows(train_test_id) : train_test_id[k].Split # "train"
    /\ \E k \in Rows(split_file) : split_file[k].Split = "train"

\* Startup has just ended, one way or the other; the file is still the one
\* found at startup.
AfterLoad == (pc = "failed") \/ BeforeFirstEpoch

\* C6: resuming from a record that lacks an expected field never fails:
\* the loop is entered, and a missing valid-loss is replaced by 10.
C6_ResumeNeverFatal ==
    (AfterLoad /\ resume_path /\ file.exists /\ file.fields # AllFields) =>
        /\ pc = "for"
        /\ "valid_loss" \notin file.fields => previous_valid_loss = Fixed(10)

\* C6 as amended: resuming from a record that lacks only its valid-loss
\* does not fail: best_loss is the sentinel 10 and the loop is entered (a
\* stored valid-loss becomes best_loss); a record that lacks its epoch, its
\* step or its model state makes startup fail before the loop.
C6_OnlyValidLossOptional ==
    (AfterLoad /\ resume_path /\ file.exists) =>
        IF {"epoch", "step", "model"} \subseteq file.fields
        THEN /\ pc = "for"
             /\ weights = file.model
             /\ previous_valid_loss =
                    (IF "valid_loss" \in file.fields THEN file.valid_loss
                     ELSE Fixed(10))
        ELSE pc = "failed"

\* C6 witness: a resumed record without valid-loss, the loop about to start.
C6_Witness ==
    /\ BeforeFirstEpoch /\ resume_path /\ file.exists
    /\ "valid_loss" \notin file.fields
    /\ previous_valid_loss = Fixed(10)

\* The handler of line 383 has just run.
JustInterrupted == pc = "for" /\ ended = "aborted"

\* C7: an interrupt never lands inside a gradient update: when the handler
\* has run, the step counter equals the optimizer steps taken and the
\* batches added to the accumulator since run start.
C7_Cooperative ==
    JustInterrupted => (step = optSteps /\ totalAdds = step)

\* C7 as amended: an interrupt can land between any two statements of the
\* try body, also inside the update sequence.  The sequence runs in its
\* fixed order, so an interrupted batch has done a prefix of it: batches
\* added <= step counter <= optimizer steps, the optimizer steps exceed the
\* batches added by at most one per interrupt caught (plus one while a batch
\* is between its optimizer step and its add), the optimizer only steps on
\* freshly backpropagated gradients, and the three counts are equal at every
\* batch boundary of a run in which no interrupt was caught.
C7_PrefixOfUpdate ==
    LET open == IF pc \in {"inc_step", "meter_add"} THEN 1 ELSE 0
    IN  /\ totalAdds <= step
        /\ step <= optSteps
        /\ optSteps - totalAdds <= interrupts + open
        /\ pc = "inc_step" => step < optSteps
        /\ pc = "meter_add" => totalAdds < step
        /\ pc = "backward" => grads = "zero"
        /\ pc \in {"opt_step", "inc_step", "meter_add"} => grads = "fresh"
        /\ (interrupts = 0 /\ open = 0) => (step = optSteps /\ totalAdds = step)

\* C7 witness: the handler has run after an optimizer step whose counter
\* increment and metric add never happened.
C7_Witness ==
    JustInterrupted /\ optSteps = step + 1 /\ totalAdds = step

\* C8: at the end of a completed epoch in which valid_loss < best_loss or
\* valid_jaccard > best_jaccard held, the one file holds that epoch's
\* record (model state, step, train and validation metrics), whatever it
\* held before, and every write of the epoch stored that same content; at
\* the end of a completed epoch in which neither held, the file is what it
\* was when the epoch's selection began and nothing was written.
C8_SingleSlot ==
    EpochCompleted =>
        IF \/ valid_metrics.loss1 < sel.loss0
           \/ valid_metrics.jaccard > sel.jac0
        THEN /\ file.exists
             /\ file.epoch = epoch + 1
             /\ file.model = weights
             /\ file.step = step
             /\ file.train_metrics = train_metrics
             /\ file.valid_metrics = valid_metrics
             /\ Len(writes) \in {1, 2}
             /\ \A k \in 1..Len(writes) : writes[k].rec = file
        ELSE file = sel.file0 /\ writes = <<>>

\* C8 witness: a later epoch improved on both criteria and replaced the
\* record an earlier epoch of this run had written.
C8_Witness ==
    /\ EpochCompleted /\ epoch >= 2
    /\ Len(writes) = 2
    /\ sel.file0.exists /\ sel.file0.epoch = epoch
    /\ file # sel.file0

\* What a whole epoch does, in order.
EpochOrder ==
    [k \in 1..NBatches |-> "batch"] \o <<"value", "valid", "log", "select", "sched">>

\* C9: what an epoch has done so far is always a prefix of: every batch,
\* value(), validation, the log records, checkpoint selection, the
\* scheduler step; a completed epoch has done all of it once, the scheduler
\* was advanced with that epoch's validation loss1, and it has been
\* advanced once per completed epoch and never for an aborted one.
C9_EpochOrder ==
    /\ Len(events) <= Len(EpochOrder)
    /\ events = SubSeq(EpochOrder, 1, Len(events))
    /\ EpochCompleted =>
           /\ events = EpochOrder
           /\ scheduler.last = valid_metrics.loss1
    /\ (pc = "for" /\ ended # "none") => scheduler.n + interrupts = epoch
    /\ JustInterrupted =>
           \A k \in 1..Len(events) : events[k] # "sched"

\* C9 witness: a completed epoch after an aborted one.
C9_Witness ==
    /\ EpochCompleted /\ interrupts = 1 /\ scheduler.n = 1 /\ epoch = 2

\* Positions after line 350 in the try body.
AfterValue == {"validation", "write", "select", "loss_test", "loss_update",
               "jac_test", "jac_update", "sched"}

\* C10: the accumulator only ever holds batches of the current epoch, one
\* entry per batch processed, and the training metrics finalized for epoch
\* e aggregate exactly the batches of epoch e, also after an aborted epoch.
C10_EpochIsolation ==
    /\ pc \in TryBody =>
           /\ meter \subseteq {<<epoch, b>> : b \in 1..NBatches}
           /\ Cardinality(meter) =
                  Cardinality({k \in 1..Len(events) : events[k] = "batch"})
    /\ (pc \in AfterValue \/ EpochCompleted) =>
           train_metrics.batches = {<<epoch, b>> : b \in 1..NBatches}

\* C10 witness: metrics finalized in the epoch after one that was aborted
\* with a batch already added.
C10_Witness ==
    /\ pc = "validation" /\ epoch = 2 /\ interrupts = 1
    /\ totalAdds = NBatches + 1
    /\ train_metrics.batches = {<<2, b>> : b \in 1..NBatches}

====
